---- MODULE Spec2Model ----
(***************************************************************************)
(* A model of DrmRenderer (app/streaming/video/ffmpeg-renderers/drm.cpp):  *)
(* the framebuffer lifecycle of renderFrame, the colour property           *)
(* negotiation, the HDR metadata blob handling of setHdrMode and the       *)
(* backend map/unmap protocol.                                             *)
(*                                                                         *)
(* The renderer is single threaded and every entry point is a synchronous  *)
(* sequence of device calls, so each entry point is ONE action.  A device  *)
(* call may succeed or fail as the kernel decides: it is modelled as the   *)
(* SET of machine states it can leave, with the call's result in err, and  *)
(* an entry point as the set of states its code can reach through them.    *)
(* The device calls of the most recent entry point are recorded, in order  *)
(* and with their outcome, in the variable log.                            *)
(***************************************************************************)
EXTENDS Integers, Sequences, FiniteSets, TLC

\* ------------------------------------------------------------------ bounds
\* Framebuffer ids the kernel hands out are drawn from 1..MaxFbId and are
\* reused after drmModeRmFB; blob ids likewise from 1..MaxBlobId.
MaxFbId == 2
MaxBlobId == 2

\* EGL image handles are drawn from 1..MaxImageId and reused after destroy.
MaxImageId == 2

\* ------------------------------------------------------- program constants
\* handles[4], pitches[4], offsets[4], modifiers[4]
AV_DRM_MAX_PLANES == 4
\* the colorspaces getFrameColorspace can report; COLORSPACE_UNKNOWN stands
\* for every value that takes the default branch of getDrmColorEncodingValue
COLORSPACE_REC_601 == 0
COLORSPACE_REC_709 == 1
COLORSPACE_REC_2020 == 2
COLORSPACE_UNKNOWN == 3
\* m_LastColorSpace(-1)
NO_COLORSPACE == -1
\* enum AVPixelFormat: AV_PIX_FMT_NV12 is its 24th enumerator; the position of
\* AV_PIX_FMT_DRM_PRIME depends on the FFmpeg version and is never 0, which is
\* AV_PIX_FMT_YUV420P
AV_PIX_FMT_NV12 == 23
AV_PIX_FMT_DRM_PRIME == 179

ColorSpaces ==
    {COLORSPACE_REC_601, COLORSPACE_REC_709, COLORSPACE_REC_2020, COLORSPACE_UNKNOWN}

\* A null const char* / a null drmModePropertyPtr.
NullString == "<null>"
NullProp == [name |-> NullString, enums |-> << >>]

\* --------------------------------------------------- device descriptors
\* The enum tables a display driver reports for the two plane properties
\* (name, value pairs in the driver's order), complete or lacking entries.
RangeEnumsFull ==
    << [name |-> "YCbCr limited range", value |-> 0],
       [name |-> "YCbCr full range", value |-> 1] >>
RangeEnumsPartial ==
    << [name |-> "YCbCr limited range", value |-> 0] >>
EncodingEnumsFull ==
    << [name |-> "ITU-R BT.601 YCbCr", value |-> 0],
       [name |-> "ITU-R BT.709 YCbCr", value |-> 1],
       [name |-> "ITU-R BT.2020 YCbCr", value |-> 2] >>
EncodingEnumsPartial ==
    << [name |-> "ITU-R BT.601 YCbCr", value |-> 0],
       [name |-> "ITU-R BT.709 YCbCr", value |-> 1] >>

ColorRangeProps ==
    { NullProp,
      [name |-> "COLOR_RANGE", enums |-> RangeEnumsFull],
      [name |-> "COLOR_RANGE", enums |-> RangeEnumsPartial] }
ColorEncodingProps ==
    { NullProp,
      [name |-> "COLOR_ENCODING", enums |-> EncodingEnumsFull],
      [name |-> "COLOR_ENCODING", enums |-> EncodingEnumsPartial] }
HdrOutputMetadataProps ==
    { NullProp, [name |-> "HDR_OUTPUT_METADATA", enums |-> << >>] }

\* ------------------------------------------------------------ frames
\* What renderFrame reads of an AVFrame and its AVDRMFrameDescriptor: the
\* plane count of the single composed layer, getFrameColorspace(frame) and
\* isFrameFullRange(frame).
Frames ==
    [nb_planes : 1..AV_DRM_MAX_PLANES, colorspace : ColorSpaces, fullRange : BOOLEAN]
NoFrame == [nb_planes |-> 0, colorspace |-> NO_COLORSPACE, fullRange |-> FALSE]

VARIABLES
    phase,                      \* "constructed", "bound", "destroyed"
    m_BackendRenderer,          \* TRUE: a backend renderer is present
    m_CurrentFbId,
    m_LastFullRange,
    m_LastColorSpace,
    m_ColorEncodingProp,
    m_ColorRangeProp,
    m_HdrOutputMetadataProp,
    m_HdrOutputMetadataBlobId,
    liveFbs,                    \* kernel: framebuffer ids created, not removed
    liveBlobs,                  \* kernel: property blob ids created, not destroyed
    planeFb,                    \* kernel: framebuffer shown by the plane
    connectorHdr,               \* kernel: value of the connector's HDR property
    mapped,                     \* backend: frames mapped and not yet unmapped
    peakFbs,                    \* most framebuffers live at once in the last call
    peakBlobs,                  \* most blobs live at once in the last call
    log,                        \* device calls of the last entry point
    op,                         \* the last entry point and the arguments it read
    ret,                        \* what the last entry point returned (TRUE for void)
    lastPast,                   \* colour of the last frame that got past framebuffer creation
    lastCallPast,               \* the most recent renderFrame call got past it
    hist,                       \* how the frame of the last call relates to them
    m_DrmFd,                    \* -1 or the descriptor of the DRM device
    m_SdlOwnsDrmFd,
    m_SupportsDirectRendering,
    m_Main10Hdr,
    m_EGLExtDmaBuf,
    m_eglCreateImage,           \* the four entry points: TRUE when not null
    m_eglCreateImageKHR,
    m_eglDestroyImage,
    m_eglDestroyImageKHR,
    eglReady,                   \* initializeEGL has returned true
    images,                     \* images[0] of the caller's array: 0 or an image handle
    liveImages,                 \* EGL: images created and not destroyed, with their creator
    attribs                     \* the attribute list of the last exportEGLImages call

vars == << phase, m_BackendRenderer, m_CurrentFbId, m_LastFullRange,
           m_LastColorSpace, m_ColorEncodingProp, m_ColorRangeProp,
           m_HdrOutputMetadataProp, m_HdrOutputMetadataBlobId, liveFbs,
           liveBlobs, planeFb, connectorHdr, mapped, peakFbs, peakBlobs, log,
           op, ret, lastPast, lastCallPast, hist, m_DrmFd, m_SdlOwnsDrmFd,
           m_SupportsDirectRendering, m_Main10Hdr, m_EGLExtDmaBuf,
           m_eglCreateImage, m_eglCreateImageKHR, m_eglDestroyImage,
           m_eglDestroyImageKHR, eglReady, images, liveImages, attribs >>

\* what device binding decides, and the state of the EGL export path
bindVars == << m_DrmFd, m_SdlOwnsDrmFd, m_SupportsDirectRendering, m_Main10Hdr >>
eglVars == << m_EGLExtDmaBuf, m_eglCreateImage, m_eglCreateImageKHR,
              m_eglDestroyImage, m_eglDestroyImageKHR, eglReady, images,
              liveImages, attribs >>

\* ---------------------------------------------------------- the machine
\* The part of the state an entry point reads and writes, as one record the
\* steps below transform one after another; err, colorspace and fullRange
\* are the local variables of those names (err is 0 or -1), ret is the value
\* returned.
Machine ==
    [ m_BackendRenderer |-> m_BackendRenderer,
      m_CurrentFbId |-> m_CurrentFbId,
      m_LastFullRange |-> m_LastFullRange,
      m_LastColorSpace |-> m_LastColorSpace,
      m_ColorEncodingProp |-> m_ColorEncodingProp,
      m_ColorRangeProp |-> m_ColorRangeProp,
      m_HdrOutputMetadataProp |-> m_HdrOutputMetadataProp,
      m_HdrOutputMetadataBlobId |-> m_HdrOutputMetadataBlobId,
      liveFbs |-> liveFbs,
      liveBlobs |-> liveBlobs,
      planeFb |-> planeFb,
      connectorHdr |-> connectorHdr,
      mapped |-> mapped,
      peakFbs |-> Cardinality(liveFbs),
      peakBlobs |-> Cardinality(liveBlobs),
      log |-> << >>,
      err |-> 0,
      colorspace |-> NoFrame.colorspace,
      fullRange |-> NoFrame.fullRange,
      ret |-> TRUE ]

Store(s) ==
    /\ m_CurrentFbId' = s.m_CurrentFbId
    /\ m_LastFullRange' = s.m_LastFullRange
    /\ m_LastColorSpace' = s.m_LastColorSpace
    /\ m_HdrOutputMetadataBlobId' = s.m_HdrOutputMetadataBlobId
    /\ liveFbs' = s.liveFbs
    /\ liveBlobs' = s.liveBlobs
    /\ planeFb' = s.planeFb
    /\ connectorHdr' = s.connectorHdr
    /\ mapped' = s.mapped
    /\ peakFbs' = s.peakFbs
    /\ peakBlobs' = s.peakBlobs
    /\ log' = s.log
    /\ ret' = s.ret

Max(a, b) == IF a >= b THEN a ELSE b

\* the states reached by running step F from each state of S
Then(S, F(_)) == UNION {F(s) : s \in S}

\* the call c(arg) on property prop, with result err, appended to the log
Logged(s, c, prop, arg, err) ==
    [s EXCEPT !.err = err,
              !.log = Append(@, [call |-> c, prop |-> prop, arg |-> arg, ok |-> err = 0])]

\* ------------------------------------------------- device and backend calls
\* m_BackendRenderer->mapDrmPrimeFrame(frame, &mappedFrame): true (0) or false (-1)
mapDrmPrimeFrame(s) ==
    { Logged([s EXCEPT !.mapped = @ + 1], "mapDrmPrimeFrame", "", 0, 0),
      Logged(s, "mapDrmPrimeFrame", "", 0, -1) }

\* m_BackendRenderer->unmapDrmPrimeFrame(drmFrame)
unmapDrmPrimeFrame(s) ==
    [Logged([s EXCEPT !.mapped = @ - 1], "unmapDrmPrimeFrame", "", 0, 0)
        EXCEPT !.err = s.err]

\* drmPrimeFDToHandle(m_DrmFd, object.fd, &handles[i]) for plane i.  A handle
\* is no part of the state modelled: the call is logged when it fails.
drmPrimeFDToHandle(s, i) ==
    { [s EXCEPT !.err = 0], Logged(s, "drmPrimeFDToHandle", "", i, -1) }

\* drmModeAddFB2WithModifiers(..., &m_CurrentFbId, flags): the kernel returns
\* an id no live framebuffer has, or fails and leaves the out parameter alone
drmModeAddFB2WithModifiers(s) ==
    { Logged([s EXCEPT !.liveFbs = @ \cup {fb},
                       !.m_CurrentFbId = fb,
                       !.peakFbs = Max(@, Cardinality(s.liveFbs \cup {fb}))],
             "drmModeAddFB2WithModifiers", "", fb, 0)
        : fb \in (1..MaxFbId) \ s.liveFbs }
    \cup { Logged(s, "drmModeAddFB2WithModifiers", "", 0, -1) }

\* drmModeRmFB(m_DrmFd, id); its result is ignored
drmModeRmFB(s, id) ==
    [Logged([s EXCEPT !.liveFbs = @ \ {id}], "drmModeRmFB", "", id,
            IF id \in s.liveFbs THEN 0 ELSE -1)
        EXCEPT !.err = s.err]

\* drmModeSetPlane(m_DrmFd, m_PlaneId, m_CrtcId, fb, ...)
drmModeSetPlane(s, fb) ==
    { Logged([s EXCEPT !.planeFb = fb], "drmModeSetPlane", "", fb, 0),
      Logged(s, "drmModeSetPlane", "", fb, -1) }

\* drmModeObjectSetProperty(m_DrmFd, m_PlaneId, DRM_MODE_OBJECT_PLANE, prop_id, value)
SetPlaneProperty(s, prop, value) ==
    { Logged(s, "drmModeObjectSetProperty", prop.name, value, 0),
      Logged(s, "drmModeObjectSetProperty", prop.name, value, -1) }

\* drmModeCreatePropertyBlob(..., &m_HdrOutputMetadataBlobId)
drmModeCreatePropertyBlob(s) ==
    { Logged([s EXCEPT !.liveBlobs = @ \cup {blob},
                       !.m_HdrOutputMetadataBlobId = blob,
                       !.peakBlobs = Max(@, Cardinality(s.liveBlobs \cup {blob}))],
             "drmModeCreatePropertyBlob", "", blob, 0)
        : blob \in (1..MaxBlobId) \ s.liveBlobs }
    \cup { Logged(s, "drmModeCreatePropertyBlob", "", 0, -1) }

\* drmModeDestroyPropertyBlob(m_DrmFd, id); its result is ignored
drmModeDestroyPropertyBlob(s, id) ==
    [Logged([s EXCEPT !.liveBlobs = @ \ {id}], "drmModeDestroyPropertyBlob", "", id,
            IF id \in s.liveBlobs THEN 0 ELSE -1)
        EXCEPT !.err = s.err]

\* drmModeObjectSetProperty(m_DrmFd, m_ConnectorId, DRM_MODE_OBJECT_CONNECTOR, prop_id, value)
SetConnectorProperty(s, prop, value) ==
    { Logged([s EXCEPT !.connectorHdr = value],
             "drmModeObjectSetProperty", prop.name, value, 0),
      Logged(s, "drmModeObjectSetProperty", prop.name, value, -1) }

\* ------------------------------------------------- colour value helpers
getDrmColorEncodingValue(frame) ==
    CASE frame.colorspace = COLORSPACE_REC_601 -> "ITU-R BT.601 YCbCr"
      [] frame.colorspace = COLORSPACE_REC_709 -> "ITU-R BT.709 YCbCr"
      [] frame.colorspace = COLORSPACE_REC_2020 -> "ITU-R BT.2020 YCbCr"
      [] OTHER -> NullString

getDrmColorRangeValue(frame) ==
    IF frame.fullRange THEN "YCbCr full range" ELSE "YCbCr limited range"

\* for (i = 0; i < prop->count_enums; i++) if (!strcmp(desiredValue, enums[i].name)) break;
\* the index the loop stops at (1-based), count_enums + 1 when nothing matches
RECURSIVE FindEnum(_, _, _)
FindEnum(enums, desiredValue, i) ==
    IF i > Len(enums) THEN i
    ELSE IF enums[i].name = desiredValue THEN i
    ELSE FindEnum(enums, desiredValue, i + 1)

\* ------------------------------------------------------- renderFrame
\* if (m_BackendRenderer != nullptr) { if (!mapDrmPrimeFrame(...)) return; }
MapFrame(s) ==
    IF s.m_BackendRenderer THEN mapDrmPrimeFrame(s) ELSE {s}

\* a variant that returns without unmapping the frame
AbortAfterHandleFailure_NoUnmap(s) == s

\* the exit taken when drmPrimeFDToHandle fails
AbortAfterHandleFailure(s) ==
    IF s.m_BackendRenderer THEN unmapDrmPrimeFrame(s) ELSE s

\* a variant that goes on to the next plane when a plane's handle fails
RECURSIVE ResolveHandles_IgnoresFailure(_, _, _)
ResolveHandles_IgnoresFailure(s, i, nb_planes) ==
    IF i >= nb_planes THEN {s}
    ELSE Then(drmPrimeFDToHandle(s, i),
              LAMBDA s1 : ResolveHandles_IgnoresFailure(s1, i + 1, nb_planes))

\* for (int i = 0; i < layer.nb_planes; i++) { err = drmPrimeFDToHandle(...);
\*     if (err < 0) { unmap; return; } ... }   planes i..nb_planes-1
RECURSIVE ResolveHandles(_, _, _)
ResolveHandles(s, i, nb_planes) ==
    IF i >= nb_planes THEN {s}
    ELSE Then(drmPrimeFDToHandle(s, i),
              LAMBDA s1 : IF s1.err < 0 THEN {AbortAfterHandleFailure(s1)}
                          ELSE ResolveHandles(s1, i + 1, nb_planes))

\* err = drmModeAddFB2WithModifiers(...); unmap;
\* if (err < 0) { m_CurrentFbId = lastFbId; return; }
CreateFramebuffer(s, lastFbId) ==
    Then(drmModeAddFB2WithModifiers(s),
         LAMBDA s1 :
             LET s2 == IF s1.m_BackendRenderer THEN unmapDrmPrimeFrame(s1) ELSE s1
             IN  {IF s2.err < 0 THEN [s2 EXCEPT !.m_CurrentFbId = lastFbId] ELSE s2})

\* a variant that looks at the range flag alone
UpdateColorRange_OnRangeChangeOnly(s, frame) ==
    IF s.fullRange # s.m_LastFullRange
    THEN LET desiredValue == getDrmColorRangeValue(frame)
             prop == s.m_ColorRangeProp
             i == FindEnum(prop.enums, desiredValue, 1)
             written == IF prop # NullProp /\ desiredValue # NullString
                           /\ i <= Len(prop.enums)
                        THEN SetPlaneProperty(s, prop, prop.enums[i].value)
                        ELSE {s}
         IN  {[s1 EXCEPT !.m_LastFullRange = s.fullRange] : s1 \in written}
    ELSE {s}

\* if (fullRange != m_LastFullRange || colorspace != m_LastColorSpace) { ... }
UpdateColorRange(s, frame) ==
    IF s.fullRange # s.m_LastFullRange \/ s.colorspace # s.m_LastColorSpace
    THEN LET desiredValue == getDrmColorRangeValue(frame)
             prop == s.m_ColorRangeProp
             i == FindEnum(prop.enums, desiredValue, 1)
             written == IF prop # NullProp /\ desiredValue # NullString
                           /\ i <= Len(prop.enums)
                        THEN SetPlaneProperty(s, prop, prop.enums[i].value)
                        ELSE {s}
         IN  {[s1 EXCEPT !.m_LastFullRange = s.fullRange] : s1 \in written}
    ELSE {s}

\* a variant that does not remember the colorspace it applied
UpdateColorEncoding_NoCache(s, frame) ==
    IF s.colorspace # s.m_LastColorSpace
    THEN LET desiredValue == getDrmColorEncodingValue(frame)
             prop == s.m_ColorEncodingProp
             i == FindEnum(prop.enums, desiredValue, 1)
         IN  IF prop # NullProp /\ desiredValue # NullString /\ i <= Len(prop.enums)
             THEN SetPlaneProperty(s, prop, prop.enums[i].value)
             ELSE {s}
    ELSE {s}

\* if (colorspace != m_LastColorSpace) { ... }
UpdateColorEncoding(s, frame) ==
    IF s.colorspace # s.m_LastColorSpace
    THEN LET desiredValue == getDrmColorEncodingValue(frame)
             prop == s.m_ColorEncodingProp
             i == FindEnum(prop.enums, desiredValue, 1)
             written == IF prop # NullProp /\ desiredValue # NullString
                           /\ i <= Len(prop.enums)
                        THEN SetPlaneProperty(s, prop, prop.enums[i].value)
                        ELSE {s}
         IN  {[s1 EXCEPT !.m_LastColorSpace = s.colorspace] : s1 \in written}
    ELSE {s}

\* a variant that frees the previous framebuffer before the commit
CommitPlane_RemovesFirst(s, lastFbId) ==
    Then(drmModeSetPlane(drmModeRmFB(s, lastFbId), s.m_CurrentFbId),
         LAMBDA s1 :
             {IF s1.err < 0
              THEN [drmModeRmFB(s1, s1.m_CurrentFbId) EXCEPT !.m_CurrentFbId = lastFbId]
              ELSE s1})

\* a variant that keeps the uncommitted framebuffer when the commit fails
CommitPlane_LeaksOnFailure(s, lastFbId) ==
    Then(drmModeSetPlane(s, s.m_CurrentFbId),
         LAMBDA s1 :
             {IF s1.err < 0
              THEN [s1 EXCEPT !.m_CurrentFbId = lastFbId]
              ELSE drmModeRmFB(s1, lastFbId)})

\* a variant that does not restore m_CurrentFbId when the commit fails
CommitPlane_NoRestore(s, lastFbId) ==
    Then(drmModeSetPlane(s, s.m_CurrentFbId),
         LAMBDA s1 :
             {IF s1.err < 0
              THEN drmModeRmFB(s1, s1.m_CurrentFbId)
              ELSE drmModeRmFB(s1, lastFbId)})

\* err = drmModeSetPlane(...); if (err < 0) { drmModeRmFB(m_CurrentFbId);
\* m_CurrentFbId = lastFbId; return; }  drmModeRmFB(m_DrmFd, lastFbId);
CommitPlane(s, lastFbId) ==
    Then(drmModeSetPlane(s, s.m_CurrentFbId),
         LAMBDA s1 :
             {IF s1.err < 0
              THEN [drmModeRmFB(s1, s1.m_CurrentFbId) EXCEPT !.m_CurrentFbId = lastFbId]
              ELSE drmModeRmFB(s1, lastFbId)})

\* int colorspace = getFrameColorspace(frame); bool fullRange = isFrameFullRange(frame);
ReadFrameColor(s, frame) ==
    [s EXCEPT !.colorspace = frame.colorspace, !.fullRange = frame.fullRange]

\* a variant that does not return when framebuffer creation fails
RenderMappedFrame_NoReturn(s, frame) ==
    LET lastFbId == s.m_CurrentFbId
    IN  Then(CreateFramebuffer(s, lastFbId),
             LAMBDA s1 :
                 Then(Then(UpdateColorRange(ReadFrameColor(s1, frame), frame),
                           LAMBDA s2 : UpdateColorEncoding(s2, frame)),
                      LAMBDA s3 : CommitPlane(s3, lastFbId)))

\* the frame from framebuffer creation on: uint32_t lastFbId = m_CurrentFbId; ...
RenderMappedFrame(s, frame) ==
    LET lastFbId == s.m_CurrentFbId
    IN  Then(CreateFramebuffer(s, lastFbId),
             LAMBDA s1 :
                 IF s1.err < 0 THEN {s1}
                 ELSE Then(Then(UpdateColorRange(ReadFrameColor(s1, frame), frame),
                                LAMBDA s2 : UpdateColorEncoding(s2, frame)),
                           LAMBDA s3 : CommitPlane(s3, lastFbId)))

\* the states renderFrame(frame) can return in
renderFrame(s, frame) ==
    Then(MapFrame(s),
         LAMBDA s1 :
             IF s1.err < 0 THEN {s1}
             ELSE Then(ResolveHandles(s1, 0, frame.nb_planes),
                       LAMBDA s2 : IF s2.err < 0 THEN {s2}
                                   ELSE RenderMappedFrame(s2, frame)))

\* ----------------------------------------------------- testRenderFrame
testRenderFrame(s) ==
    IF s.m_BackendRenderer
    THEN Then(mapDrmPrimeFrame(s),
              LAMBDA s1 : {IF s1.err < 0 THEN [s1 EXCEPT !.ret = FALSE]
                           ELSE unmapDrmPrimeFrame(s1)})
    ELSE {s}

\* ---------------------------------------------------------- setHdrMode
\* a variant that forgets the blob without destroying it
DestroyHdrBlob_Forgets(s) == [s EXCEPT !.m_HdrOutputMetadataBlobId = 0]

\* if (m_HdrOutputMetadataBlobId != 0) { drmModeDestroyPropertyBlob(...);
\*     m_HdrOutputMetadataBlobId = 0; }
DestroyHdrBlob(s) ==
    IF s.m_HdrOutputMetadataBlobId # 0
    THEN [drmModeDestroyPropertyBlob(s, s.m_HdrOutputMetadataBlobId)
             EXCEPT !.m_HdrOutputMetadataBlobId = 0]
    ELSE s

\* if (enabled) { ...; int err = drmModeCreatePropertyBlob(...);
\*     if (err < 0) m_HdrOutputMetadataBlobId = 0; }
CreateHdrBlob(s, enabled) ==
    IF enabled
    THEN {IF s1.err < 0 THEN [s1 EXCEPT !.m_HdrOutputMetadataBlobId = 0] ELSE s1
             : s1 \in drmModeCreatePropertyBlob(s)}
    ELSE {s}

\* a variant that gives up when HDR is wanted and there is no blob
ApplyHdrProperty_SkipsNullBlob(s, enabled) ==
    IF enabled /\ s.m_HdrOutputMetadataBlobId = 0
    THEN {s}
    ELSE SetConnectorProperty(s, s.m_HdrOutputMetadataProp,
                              IF enabled THEN s.m_HdrOutputMetadataBlobId ELSE 0)

\* drmModeObjectSetProperty(..., enabled ? m_HdrOutputMetadataBlobId : 0)
ApplyHdrProperty(s, enabled) ==
    SetConnectorProperty(s, s.m_HdrOutputMetadataProp,
                         IF enabled THEN s.m_HdrOutputMetadataBlobId ELSE 0)

\* a variant that creates the new blob before it destroys the one it holds
setHdrMode_CreatesFirst(s, enabled) ==
    IF s.m_HdrOutputMetadataProp # NullProp
    THEN LET old == s.m_HdrOutputMetadataBlobId
         IN  Then(CreateHdrBlob(s, enabled),
                  LAMBDA s1 :
                      ApplyHdrProperty(
                          IF old # 0
                          THEN [drmModeDestroyPropertyBlob(s1, old)
                                   EXCEPT !.m_HdrOutputMetadataBlobId =
                                              IF enabled THEN @ ELSE 0]
                          ELSE s1,
                          enabled))
    ELSE {s}

setHdrMode(s, enabled) ==
    IF s.m_HdrOutputMetadataProp # NullProp
    THEN Then(CreateHdrBlob(DestroyHdrBlob(s), enabled),
              LAMBDA s1 : ApplyHdrProperty(s1, enabled))
    ELSE {s}

\* ---------------------------------------------------------- ~DrmRenderer
\* a variant that skips the framebuffer the renderer holds
ReleaseFramebuffer_Skips(s) == s

\* if (m_CurrentFbId != 0) { drmModeRmFB(m_DrmFd, m_CurrentFbId); }
ReleaseFramebuffer(s) ==
    IF s.m_CurrentFbId # 0 THEN drmModeRmFB(s, s.m_CurrentFbId) ELSE s

\* if (m_HdrOutputMetadataBlobId != 0) { drmModeDestroyPropertyBlob(...); }
ReleaseHdrBlob(s) ==
    IF s.m_HdrOutputMetadataBlobId # 0
    THEN drmModeDestroyPropertyBlob(s, s.m_HdrOutputMetadataBlobId)
    ELSE s

\* if (prop != nullptr) { drmModeFreeProperty(prop); }
drmModeFreeProperty(s, prop) ==
    IF prop # NullProp
    THEN [Logged(s, "drmModeFreeProperty", prop.name, 0, 0) EXCEPT !.err = s.err]
    ELSE s

\* the three cached property descriptors, in the order the destructor frees them
FreeProperties(s) ==
    drmModeFreeProperty(
        drmModeFreeProperty(
            drmModeFreeProperty(s, s.m_ColorEncodingProp),
            s.m_ColorRangeProp),
        s.m_HdrOutputMetadataProp)

\* a variant that closes every valid descriptor, borrowed or not
CloseDevice_IgnoresOwner(s) ==
    IF m_DrmFd # -1
    THEN [Logged(s, "close", "", m_DrmFd, 0) EXCEPT !.err = s.err]
    ELSE s

\* if (!m_SdlOwnsDrmFd && m_DrmFd != -1) { close(m_DrmFd); }
CloseDevice(s) ==
    IF ~m_SdlOwnsDrmFd /\ m_DrmFd # -1
    THEN [Logged(s, "close", "", m_DrmFd, 0) EXCEPT !.err = s.err]
    ELSE s

\* a variant that closes the device before it releases what it created on it
destructor_ClosesFirst(s) ==
    {FreeProperties(ReleaseHdrBlob(ReleaseFramebuffer(s1)))
        : s1 \in setHdrMode(CloseDevice(Logged(s, "setHdrMode", "", 0, 0)), FALSE)}

\* the states ~DrmRenderer can leave; the setHdrMode(false) it starts with is
\* recorded as an entry of its own, before the device calls setHdrMode makes
destructor(s) ==
    {CloseDevice(FreeProperties(ReleaseHdrBlob(ReleaseFramebuffer(s1))))
        : s1 \in setHdrMode(Logged(s, "setHdrMode", "", 0, 0), FALSE)}

\* ------------------------------------------------------------- EGL export
\* A 64-bit format modifier, as the two 32-bit words exportEGLImages splits it
\* into: (EGLint)(m & 0xFFFFFFFF) and (EGLint)(m >> 32), each word as the
\* signed value the cast to EGLint gives.
\* DRM_FORMAT_MOD_INVALID is 0x00ffffffffffffff, DRM_FORMAT_MOD_LINEAR is 0,
\* I915_FORMAT_MOD_X_TILED is 0x0100000000000001.
DRM_FORMAT_MOD_INVALID == [lo |-> -1, hi |-> 16777215]
DRM_FORMAT_MOD_LINEAR == [lo |-> 0, hi |-> 0]
I915_FORMAT_MOD_X_TILED == [lo |-> 1, hi |-> 16777216]
Modifiers == {DRM_FORMAT_MOD_INVALID, DRM_FORMAT_MOD_LINEAR, I915_FORMAT_MOD_X_TILED}

\* Plane i of a frame with the fd and modifier of the object it lies in:
\* planes[i].offset, planes[i].pitch, objects[planes[i].object_index].fd and
\* .format_modifier.  Every plane has an fd and an offset of its own.
PlaneOf(i, modifier) ==
    [fd |-> 20 + i, offset |-> 4096 * i, pitch |-> 2048, format_modifier |-> modifier]

\* The frames exportEGLImages is given: 1 to 4 planes in one or two objects
\* (plane 0 in the first, the other planes in the second), each object with
\* DRM_FORMAT_MOD_INVALID or a modifier, or all planes linear; any colorspace,
\* either range.
EglPlaneLists ==
    UNION { { [i \in 1..n |-> PlaneOf(i - 1, IF i = 1 THEN first ELSE second)]
                : first, second \in {DRM_FORMAT_MOD_INVALID, I915_FORMAT_MOD_X_TILED} }
            \cup { [i \in 1..n |-> PlaneOf(i - 1, DRM_FORMAT_MOD_LINEAR)] }
              : n \in 1..AV_DRM_MAX_PLANES }
EglFrames ==
    [format : {842094158}, width : {1920}, height : {1080}, planes : EglPlaneLists,
     colorspace : ColorSpaces, fullRange : BOOLEAN]

\* One word of the EGLAttrib array: an EGL enumerant, by name, or a number.
Key(name) == [sym |-> name, num |-> 0]
Val(n) == [sym |-> "", num |-> n]

\* switch (i) { case 0: ... case 3: ... }: the enumerants each case uses
PlaneKeys(i) ==
    CASE i = 0 -> [fd |-> "EGL_DMA_BUF_PLANE0_FD_EXT",
                   offset |-> "EGL_DMA_BUF_PLANE0_OFFSET_EXT",
                   pitch |-> "EGL_DMA_BUF_PLANE0_PITCH_EXT",
                   lo |-> "EGL_DMA_BUF_PLANE0_MODIFIER_LO_EXT",
                   hi |-> "EGL_DMA_BUF_PLANE0_MODIFIER_HI_EXT"]
      [] i = 1 -> [fd |-> "EGL_DMA_BUF_PLANE1_FD_EXT",
                   offset |-> "EGL_DMA_BUF_PLANE1_OFFSET_EXT",
                   pitch |-> "EGL_DMA_BUF_PLANE1_PITCH_EXT",
                   lo |-> "EGL_DMA_BUF_PLANE1_MODIFIER_LO_EXT",
                   hi |-> "EGL_DMA_BUF_PLANE1_MODIFIER_HI_EXT"]
      [] i = 2 -> [fd |-> "EGL_DMA_BUF_PLANE2_FD_EXT",
                   offset |-> "EGL_DMA_BUF_PLANE2_OFFSET_EXT",
                   pitch |-> "EGL_DMA_BUF_PLANE2_PITCH_EXT",
                   lo |-> "EGL_DMA_BUF_PLANE2_MODIFIER_LO_EXT",
                   hi |-> "EGL_DMA_BUF_PLANE2_MODIFIER_HI_EXT"]
      [] i = 3 -> [fd |-> "EGL_DMA_BUF_PLANE3_FD_EXT",
                   offset |-> "EGL_DMA_BUF_PLANE3_OFFSET_EXT",
                   pitch |-> "EGL_DMA_BUF_PLANE3_PITCH_EXT",
                   lo |-> "EGL_DMA_BUF_PLANE3_MODIFIER_LO_EXT",
                   hi |-> "EGL_DMA_BUF_PLANE3_MODIFIER_HI_EXT"]

\* a variant that adds the modifier words whether the extension is there or not
PlaneAttribs_AlwaysModifier(i, plane, extDmaBuf) ==
    LET k == PlaneKeys(i)
    IN  << Key(k.fd), Val(plane.fd), Key(k.offset), Val(plane.offset),
           Key(k.pitch), Val(plane.pitch) >>
        \o (IF plane.format_modifier # DRM_FORMAT_MOD_INVALID
            THEN << Key(k.lo), Val(plane.format_modifier.lo),
                    Key(k.hi), Val(plane.format_modifier.hi) >>
            ELSE << >>)

\* what one pass of the plane loop appends to attribs
PlaneAttribs(i, plane, extDmaBuf) ==
    LET k == PlaneKeys(i)
    IN  << Key(k.fd), Val(plane.fd), Key(k.offset), Val(plane.offset),
           Key(k.pitch), Val(plane.pitch) >>
        \o (IF extDmaBuf /\ plane.format_modifier # DRM_FORMAT_MOD_INVALID
            THEN << Key(k.lo), Val(plane.format_modifier.lo),
                    Key(k.hi), Val(plane.format_modifier.hi) >>
            ELSE << >>)

\* for (int i = 0; i < nb_planes; ++i) { ... }   planes i..nb_planes-1
RECURSIVE AppendPlanes(_, _, _, _)
AppendPlanes(built, planes, i, extDmaBuf) ==
    IF i >= Len(planes) THEN built
    ELSE AppendPlanes(built \o PlaneAttribs(i, planes[i + 1], extDmaBuf),
                      planes, i + 1, extDmaBuf)

\* switch (getFrameColorspace(frame)) { ... } with no default case
ColorspaceHint(colorspace) ==
    CASE colorspace = COLORSPACE_REC_601 ->
             << Key("EGL_YUV_COLOR_SPACE_HINT_EXT"), Key("EGL_ITU_REC601_EXT") >>
      [] colorspace = COLORSPACE_REC_709 ->
             << Key("EGL_YUV_COLOR_SPACE_HINT_EXT"), Key("EGL_ITU_REC709_EXT") >>
      [] colorspace = COLORSPACE_REC_2020 ->
             << Key("EGL_YUV_COLOR_SPACE_HINT_EXT"), Key("EGL_ITU_REC2020_EXT") >>
      [] OTHER -> << >>

RangeHint(fullRange) ==
    << Key("EGL_SAMPLE_RANGE_HINT_EXT"),
       Key(IF fullRange THEN "EGL_YUV_FULL_RANGE_EXT" ELSE "EGL_YUV_NARROW_RANGE_EXT") >>

\* the attribute list up to and including EGL_NONE
BuildAttribs(frame, extDmaBuf) ==
    AppendPlanes(<< Key("EGL_LINUX_DRM_FOURCC_EXT"), Val(frame.format),
                    Key("EGL_WIDTH"), Val(frame.width),
                    Key("EGL_HEIGHT"), Val(frame.height) >>,
                 frame.planes, 0, extDmaBuf)
    \o ColorspaceHint(frame.colorspace)
    \o RangeHint(frame.fullRange)
    \o << Key("EGL_NONE") >>

\* The EGL side of an entry point: the caller's images[0], the images that
\* exist, the calls made through the entry points, the value returned.
EglMachine == [images |-> images, liveImages |-> liveImages, log |-> << >>, ret |-> 1]

\* a call through a create entry point: a new image, or EGL_NO_IMAGE (0).
\* A call through an entry point that is null is recorded as "null" and
\* creates nothing.
CreateImage(e, family, present) ==
    IF present
    THEN { [e EXCEPT !.images = id,
                     !.liveImages = @ \cup {[id |-> id, family |-> family]},
                     !.log = Append(@, [call |-> "create", prop |-> family,
                                        arg |-> id, ok |-> TRUE])]
             : id \in (1..MaxImageId) \ {img.id : img \in e.liveImages} }
         \cup { [e EXCEPT !.log = Append(@, [call |-> "create", prop |-> family,
                                             arg |-> 0, ok |-> FALSE])] }
    ELSE { [e EXCEPT !.log = Append(@, [call |-> "null", prop |-> family,
                                        arg |-> 0, ok |-> FALSE])] }

\* a call through a destroy entry point, "null" when the entry point is null;
\* ok: the handle is an image that exists
DestroyImage(e, family, present) ==
    [e EXCEPT !.liveImages = IF present THEN {img \in @ : img.id # e.images} ELSE @,
              !.log = Append(@, [call |-> IF present THEN "destroy" ELSE "null",
                                 prop |-> family, arg |-> e.images,
                                 ok |-> present /\ \E img \in e.liveImages :
                                                        img.id = e.images])]

\* if (m_eglDestroyImage) m_eglDestroyImage(dpy, images[0]);
\* else m_eglDestroyImageKHR(dpy, images[0]);
freeEGLImages(e) ==
    IF m_eglDestroyImage
    THEN DestroyImage(e, "core", TRUE)
    ELSE DestroyImage(e, "KHR", m_eglDestroyImageKHR)

\* memset(images, 0, ...); ...; create through m_eglCreateImage if it is not
\* null and through m_eglCreateImageKHR otherwise; on failure freeEGLImages
\* and return -1, else return 1
exportEGLImages(e) ==
    { IF e1.images = 0 THEN [freeEGLImages(e1) EXCEPT !.ret = -1] ELSE e1
        : e1 \in IF m_eglCreateImage
                  THEN CreateImage([e EXCEPT !.images = 0], "core", TRUE)
                  ELSE CreateImage([e EXCEPT !.images = 0], "KHR", m_eglCreateImageKHR) }

\* if (!(m_eglCreateImage && m_eglDestroyImage) &&
\*     !(m_eglCreateImageKHR && m_eglDestroyImageKHR)) return false;
HasImageEntryPoints(create, destroy, createKHR, destroyKHR) ==
    ~(~(create /\ destroy) /\ ~(createKHR /\ destroyKHR))

\* a variant that lets the HDR preference decide before the overrides
canExportEGL_AutoFirst(forceDirect, forceEGL) ==
    IF m_SupportsDirectRendering /\ m_Main10Hdr THEN FALSE
    ELSE IF forceDirect = "1" THEN FALSE
    ELSE TRUE

\* canExportEGL(): DRM_FORCE_DIRECT and DRM_FORCE_EGL as the environment has them
canExportEGL(forceDirect, forceEGL) ==
    IF forceDirect = "1" THEN FALSE
    ELSE IF forceEGL = "1" THEN TRUE
    ELSE IF m_SupportsDirectRendering /\ m_Main10Hdr THEN FALSE
    ELSE TRUE

\* ------------------------------------------------- initialize, pixel formats
\* bool initialize(PDECODER_PARAMETERS params) { return false; }
initialize(params) == FALSE

\* the conversion of an enum AVPixelFormat to the bool a function returns
ToBool(n) == n # 0

\* getPreferredPixelFormat(videoFormat); backendFormat: what the backend
\* renderer answers when there is one
getPreferredPixelFormat(videoFormat, backendFormat) ==
    IF m_BackendRenderer THEN backendFormat ELSE AV_PIX_FMT_DRM_PRIME

\* isPixelFormatSupported(videoFormat, pixelFormat); backendAnswer,
\* backendFormat: what the backend renderer answers when there is one
isPixelFormatSupported(videoFormat, pixelFormat, backendAnswer, backendFormat) ==
    IF m_BackendRenderer THEN backendAnswer
    ELSE ToBool(getPreferredPixelFormat(videoFormat, backendFormat))

\* ------------------------------------------------------------ the log
Calls(l, c) == {i \in 1..Len(l) : l[i].call = c}
PropertyWrites(l, p) ==
    {i \in Calls(l, "drmModeObjectSetProperty") : l[i].prop = p}
PastFbCreation(l) ==
    \E i \in Calls(l, "drmModeAddFB2WithModifiers") : l[i].ok

\* ---------------------------------------------------------- behaviour
\* The last entry point: its name, the colorspace and range flag renderFrame
\* read of its frame (getFrameColorspace and isFrameFullRange are called only
\* once the framebuffer exists; NoFrame's values before that), and the
\* argument of setHdrMode.
Op(name, s, enabled) ==
    [name |-> name, colorspace |-> s.colorspace, fullRange |-> s.fullRange,
     enabled |-> enabled]

\* History of the frames rendered.  ColorOf: the colour a call read.
\* History: how the frame of a renderFrame call that got past framebuffer
\* creation relates to the frames before it:
\*   "first"       no frame got past framebuffer creation before it
\*   "same"        its colorspace and range are those of the last frame that did
\*   "colorspace"  the renderFrame call just before it got past framebuffer
\*                 creation with the same range flag and another colorspace
\*   "other"       anything else; "none": the call did not get that far
ColorOf(s) == [colorspace |-> s.colorspace, fullRange |-> s.fullRange]
NoColor == [colorspace |-> NO_COLORSPACE, fullRange |-> FALSE]
History(s) ==
    IF ~PastFbCreation(s.log) THEN "none"
    ELSE IF lastPast = NoColor THEN "first"
    ELSE IF ColorOf(s) = lastPast THEN "same"
    ELSE IF lastCallPast /\ s.fullRange = lastPast.fullRange THEN "colorspace"
    ELSE "other"

\* DrmRenderer::DrmRenderer(backendRenderer)
Init ==
    /\ phase = "constructed"
    /\ m_BackendRenderer \in BOOLEAN
    /\ m_CurrentFbId = 0
    /\ m_LastFullRange = FALSE
    /\ m_LastColorSpace = NO_COLORSPACE
    /\ m_ColorEncodingProp = NullProp
    /\ m_ColorRangeProp = NullProp
    /\ m_HdrOutputMetadataProp = NullProp
    /\ m_HdrOutputMetadataBlobId = 0
    /\ liveFbs = {}
    /\ liveBlobs = {}
    /\ planeFb = 0
    /\ connectorHdr = 0
    /\ mapped = 0
    /\ peakFbs = 0
    /\ peakBlobs = 0
    /\ log = << >>
    /\ op = Op("DrmRenderer", NoFrame, FALSE)
    /\ ret = TRUE
    /\ lastPast = NoColor
    /\ lastCallPast = FALSE
    /\ hist = "none"
    /\ m_DrmFd = -1
    /\ m_SdlOwnsDrmFd = FALSE
    /\ m_SupportsDirectRendering = FALSE
    /\ m_Main10Hdr = FALSE
    /\ m_EGLExtDmaBuf = FALSE
    /\ m_eglCreateImage = FALSE
    /\ m_eglCreateImageKHR = FALSE
    /\ m_eglDestroyImage = FALSE
    /\ m_eglDestroyImageKHR = FALSE
    /\ eglReady = FALSE
    /\ images = 0
    /\ liveImages = {}
    /\ attribs = << >>

\* The devices the renderer may be bound to: each optional property present
\* or absent, the enum tables complete or not.
\* sdlOwnsDrmFd: the descriptor is borrowed from the windowing layer;
\* direct, main10: what binding finds for m_SupportsDirectRendering and m_Main10Hdr.
Devices ==
    [range : ColorRangeProps, encoding : ColorEncodingProps,
     hdr : HdrOutputMetadataProps, sdlOwnsDrmFd : BOOLEAN, direct : BOOLEAN,
     main10 : BOOLEAN]
\* the devices that differ in what the render path reads, in what the HDR
\* path reads, in what teardown reads and in what canExportEGL reads
PlaneDevices ==
    {d \in Devices : d.hdr = NullProp /\ ~d.sdlOwnsDrmFd /\ ~d.direct /\ ~d.main10}
HdrDevices == {d \in Devices : ~d.sdlOwnsDrmFd /\ ~d.direct /\ ~d.main10}
TeardownDevices ==
    {d \in Devices : d.range = NullProp /\ d.encoding = NullProp
                      /\ ~d.direct /\ ~d.main10}
EglDevices ==
    {d \in Devices : d.range = NullProp /\ d.encoding = NullProp
                      /\ d.hdr = NullProp /\ ~d.sdlOwnsDrmFd}
ExportDevices == {d \in EglDevices : ~d.direct /\ ~d.main10}

\* Device binding: the optional plane and connector properties are looked up
\* by name once; each may be absent on the device.
BindDevice(devices) ==
    /\ phase = "constructed"
    /\ phase' = "bound"
    /\ \E d \in devices :
          /\ m_ColorRangeProp' = d.range
          /\ m_ColorEncodingProp' = d.encoding
          /\ m_HdrOutputMetadataProp' = d.hdr
          /\ m_DrmFd' = 3
          /\ m_SdlOwnsDrmFd' = d.sdlOwnsDrmFd
          /\ m_SupportsDirectRendering' = d.direct
          /\ m_Main10Hdr' = d.main10
    /\ op' = Op("bind", NoFrame, FALSE)
    /\ UNCHANGED << m_BackendRenderer, m_CurrentFbId, m_LastFullRange,
                    m_LastColorSpace, m_HdrOutputMetadataBlobId, liveFbs,
                    liveBlobs, planeFb, connectorHdr, mapped, peakFbs,
                    peakBlobs, log, ret, lastPast, lastCallPast, hist, eglVars >>

\* renderFrame(frame) for a frame of the set frames
RenderFrameOf(frames) ==
    /\ phase = "bound"
    /\ \E s \in UNION {renderFrame(Machine, frame) : frame \in frames} :
          /\ Store(s)
          /\ op' = Op("renderFrame", s, FALSE)
          /\ lastPast' = IF PastFbCreation(s.log) THEN ColorOf(s) ELSE lastPast
          /\ lastCallPast' = PastFbCreation(s.log)
          /\ hist' = History(s)
    /\ UNCHANGED << phase, m_BackendRenderer, m_ColorEncodingProp,
                    m_ColorRangeProp, m_HdrOutputMetadataProp, bindVars, eglVars >>

RenderFrame == RenderFrameOf(Frames)

TestRenderFrame ==
    /\ phase = "bound"
    /\ \E s \in testRenderFrame(Machine) :
          /\ Store(s)
          /\ op' = Op("testRenderFrame", s, FALSE)
          /\ hist' = "none"
    /\ UNCHANGED << phase, m_BackendRenderer, m_ColorEncodingProp,
                    m_ColorRangeProp, m_HdrOutputMetadataProp, lastPast,
                    lastCallPast, bindVars, eglVars >>

SetHdrMode ==
    /\ phase = "bound"
    /\ \E enabled \in BOOLEAN :
       \E s \in setHdrMode(Machine, enabled) :
          /\ Store(s)
          /\ op' = Op("setHdrMode", s, enabled)
          /\ hist' = "none"
    /\ UNCHANGED << phase, m_BackendRenderer, m_ColorEncodingProp,
                    m_ColorRangeProp, m_HdrOutputMetadataProp, lastPast,
                    lastCallPast, bindVars, eglVars >>

\* DrmRenderer::~DrmRenderer(), of a renderer bound to a device or not
Destructor ==
    /\ phase \in {"constructed", "bound"}
    /\ phase' = "destroyed"
    /\ \E s \in destructor(Machine) :
          /\ Store(s)
          /\ op' = Op("~DrmRenderer", s, FALSE)
          /\ hist' = "none"
    /\ UNCHANGED << m_BackendRenderer, m_ColorEncodingProp, m_ColorRangeProp,
                    m_HdrOutputMetadataProp, lastPast, lastCallPast, bindVars,
                    eglVars >>

\* what the DRM entry points write and the EGL entry points leave alone
drmVars == << phase, m_BackendRenderer, m_CurrentFbId, m_LastFullRange,
              m_LastColorSpace, m_ColorEncodingProp, m_ColorRangeProp,
              m_HdrOutputMetadataProp, m_HdrOutputMetadataBlobId, liveFbs,
              liveBlobs, planeFb, connectorHdr, mapped, peakFbs, peakBlobs,
              lastPast, lastCallPast, hist >>

NoEglFrame ==
    [format |-> 0, width |-> 0, height |-> 0, planes |-> << >>,
     colorspace |-> NO_COLORSPACE, fullRange |-> FALSE]
\* an EGL entry point and the frame it was given
EglOp(name, frame) ==
    [name |-> name, colorspace |-> frame.colorspace, fullRange |-> frame.fullRange,
     enabled |-> FALSE, frame |-> frame]

\* initializeEGL(display, ext): what the EGL implementation supports and which
\* entry points eglGetProcAddress resolves are the driver's choice
InitializeEGL ==
    /\ phase = "bound"
    /\ ~eglReady
    /\ \E dmaBufImport, dmaBufModifiers, create, createKHR, destroy, destroyKHR \in BOOLEAN :
          IF ~dmaBufImport
          THEN /\ ret' = FALSE
               /\ UNCHANGED << m_EGLExtDmaBuf, m_eglCreateImage, m_eglCreateImageKHR,
                               m_eglDestroyImage, m_eglDestroyImageKHR, eglReady >>
          ELSE /\ m_EGLExtDmaBuf' = dmaBufModifiers
               /\ m_eglCreateImage' = create
               /\ m_eglCreateImageKHR' = createKHR
               /\ m_eglDestroyImage' = destroy
               /\ m_eglDestroyImageKHR' = destroyKHR
               /\ ret' = HasImageEntryPoints(create, destroy, createKHR, destroyKHR)
               /\ eglReady' = ret'
    /\ log' = << >>
    /\ op' = EglOp("initializeEGL", NoEglFrame)
    /\ UNCHANGED << drmVars, bindVars, images, liveImages, attribs >>

\* exportEGLImages(frame, dpy, images), called once initializeEGL has returned
\* true, with an array that holds no image of an earlier call
ExportEGLImages ==
    /\ phase = "bound"
    /\ eglReady
    /\ images = 0
    /\ \E frame \in EglFrames :
       \E e \in exportEGLImages(EglMachine) :
          /\ attribs' = BuildAttribs(frame, m_EGLExtDmaBuf)
          /\ images' = e.images
          /\ liveImages' = e.liveImages
          /\ log' = e.log
          /\ ret' = e.ret
          /\ op' = EglOp("exportEGLImages", frame)
    /\ UNCHANGED << drmVars, bindVars, m_EGLExtDmaBuf, m_eglCreateImage,
                    m_eglCreateImageKHR, m_eglDestroyImage, m_eglDestroyImageKHR,
                    eglReady >>

\* freeEGLImages(dpy, images), called by the owner of an exported image, who
\* then forgets the handle
FreeEGLImages ==
    /\ phase = "bound"
    /\ eglReady
    /\ images # 0
    /\ LET e == freeEGLImages(EglMachine)
       IN  /\ liveImages' = e.liveImages
           /\ log' = e.log
    /\ images' = 0
    /\ attribs' = << >>
    /\ ret' = TRUE
    /\ op' = EglOp("freeEGLImages", NoEglFrame)
    /\ UNCHANGED << drmVars, bindVars, m_EGLExtDmaBuf, m_eglCreateImage,
                    m_eglCreateImageKHR, m_eglDestroyImage, m_eglDestroyImageKHR,
                    eglReady >>

\* qgetenv("DRM_FORCE_DIRECT"), qgetenv("DRM_FORCE_EGL"): unset, "0" or "1"
EnvValues == {"", "0", "1"}

\* canExportEGL(), asked before the EGL path is set up
CanExportEGL ==
    /\ phase = "bound"
    /\ ~eglReady
    /\ \E forceDirect, forceEGL \in EnvValues :
          /\ ret' = canExportEGL(forceDirect, forceEGL)
          /\ op' = [name |-> "canExportEGL", colorspace |-> NO_COLORSPACE,
                    fullRange |-> FALSE, enabled |-> FALSE,
                    forceDirect |-> forceDirect, forceEGL |-> forceEGL]
    /\ log' = << >>
    /\ UNCHANGED << drmVars, bindVars, eglVars >>

\* initialize(params), for parameters and a system where a display device is
\* there or not and has a usable plane or not
Initialize ==
    /\ phase = "constructed"
    /\ \E deviceAvailable, planeUsable \in BOOLEAN :
          /\ ret' = initialize([deviceAvailable |-> deviceAvailable,
                                planeUsable |-> planeUsable])
          /\ op' = [name |-> "initialize", colorspace |-> NO_COLORSPACE,
                    fullRange |-> FALSE, enabled |-> FALSE,
                    deviceAvailable |-> deviceAvailable, planeUsable |-> planeUsable]
    /\ log' = << >>
    /\ UNCHANGED << drmVars, bindVars, eglVars >>

\* the video formats (VIDEO_FORMAT_H264, _H265, _H265_MAIN10) and pixel formats
\* (AV_PIX_FMT_NONE, AV_PIX_FMT_YUV420P, ...) a caller asks about
VideoFormats == {1, 256, 512}
PixelFormats == {-1, 0, AV_PIX_FMT_NV12, AV_PIX_FMT_DRM_PRIME}

IsPixelFormatSupported ==
    /\ phase \in {"constructed", "bound"}
    /\ \E videoFormat \in VideoFormats, pixelFormat \in PixelFormats,
          backendAnswer \in BOOLEAN, backendFormat \in PixelFormats :
          /\ ret' = isPixelFormatSupported(videoFormat, pixelFormat, backendAnswer,
                                          backendFormat)
          /\ op' = [name |-> "isPixelFormatSupported", colorspace |-> NO_COLORSPACE,
                    fullRange |-> FALSE, enabled |-> FALSE,
                    videoFormat |-> videoFormat, pixelFormat |-> pixelFormat,
                    backendAnswer |-> backendAnswer]
    /\ log' = << >>
    /\ UNCHANGED << drmVars, bindVars, eglVars >>

\* The render path on its own, the HDR path on its own, and both together.
NextRender == BindDevice(PlaneDevices) \/ RenderFrame \/ TestRenderFrame
SpecRender == Init /\ [][NextRender]_vars

NextHdr == BindDevice(HdrDevices) \/ SetHdrMode
SpecHdr == Init /\ [][NextHdr]_vars

\* The life of a renderer up to its teardown.  Which colour a frame has and
\* how many planes play no part in what is created and destroyed, so the
\* frames are those of one or two planes and of the first two colorspaces.
TeardownFrames ==
    {f \in Frames : f.nb_planes <= 2
                    /\ f.colorspace \in {COLORSPACE_REC_601, COLORSPACE_REC_709}}
NextTeardown ==
    \/ BindDevice(TeardownDevices)
    \/ RenderFrameOf(TeardownFrames)
    \/ SetHdrMode
    \/ Destructor
SpecTeardown == Init /\ [][NextTeardown]_vars

\* What the pipeline asks the renderer when it sets it up.
NextQueries ==
    \/ Initialize
    \/ BindDevice(EglDevices)
    \/ IsPixelFormatSupported
    \/ CanExportEGL
SpecQueries == Init /\ [][NextQueries]_vars

\* The EGL export path.
NextEGL ==
    \/ BindDevice(ExportDevices)
    \/ InitializeEGL
    \/ ExportEGLImages
    \/ FreeEGLImages
SpecEGL == Init /\ [][NextEGL]_vars

Next ==
    \/ BindDevice(Devices)
    \/ RenderFrame
    \/ TestRenderFrame
    \/ SetHdrMode
    \/ Destructor
    \/ CanExportEGL
    \/ InitializeEGL
    \/ ExportEGLImages
    \/ FreeEGLImages
    \/ Initialize
    \/ IsPixelFormatSupported
Spec == Init /\ [][Next]_vars

\* ------------------------------------------------------------ claims
FailedCalls(l, c) == {i \in Calls(l, c) : ~l[i].ok}
OkCalls(l, c) == {i \in Calls(l, c) : l[i].ok}
\* the framebuffer ids a call created
NewFbs(l) == {l[i].arg : i \in OkCalls(l, "drmModeAddFB2WithModifiers")}
HasEnum(prop, name) == \E i \in 1..Len(prop.enums) : prop.enums[i].name = name
ColorWrites(l) == PropertyWrites(l, "COLOR_RANGE") \cup PropertyWrites(l, "COLOR_ENCODING")
KnownColorSpaces == {COLORSPACE_REC_601, COLORSPACE_REC_709, COLORSPACE_REC_2020}

\* C1: a renderFrame call whose device calls all succeed returns with
\* m_CurrentFbId the framebuffer it created (live, and the one the plane
\* shows), and a drmModeRmFB of the framebuffer that was current on entry
\* comes only after the successful drmModeSetPlane of the new one.
C1_Step ==
    op'.name = "renderFrame" =>
        /\ OkCalls(log', "drmModeSetPlane") # {} =>
              /\ NewFbs(log') = {m_CurrentFbId'}
              /\ m_CurrentFbId' \in liveFbs'
              /\ planeFb' = m_CurrentFbId'
        /\ m_CurrentFbId # 0 =>
              \A r \in Calls(log', "drmModeRmFB") :
                  log'[r].arg = m_CurrentFbId =>
                      \E c \in OkCalls(log', "drmModeSetPlane") :
                          c < r /\ log'[c].arg \in NewFbs(log')
C1_DestroyOnlyAfterCommit == [][C1_Step]_vars

C1_Witness ==
    /\ op.name = "renderFrame"
    /\ \E c \in OkCalls(log, "drmModeSetPlane"), r \in OkCalls(log, "drmModeRmFB") :
          c < r /\ log[r].arg # 0 /\ log[c].arg = m_CurrentFbId

C3_Step ==
    op'.name = "renderFrame" /\ FailedCalls(log', "drmModeAddFB2WithModifiers") # {} =>
        /\ m_CurrentFbId' = m_CurrentFbId
        /\ Calls(log', "drmModeSetPlane") = {}
        /\ Calls(log', "drmModeRmFB") = {}
        /\ liveFbs' = liveFbs
        /\ planeFb' = planeFb
C3_CreateFailureKeepsFramebuffer == [][C3_Step]_vars

C3_Witness ==
    /\ op.name = "renderFrame"
    /\ FailedCalls(log, "drmModeAddFB2WithModifiers") # {}
    /\ m_CurrentFbId # 0

\* C4: when drmModeSetPlane fails, the framebuffer created in that call is
\* destroyed exactly once (after the failed commit), the framebuffer that was
\* current on entry is not destroyed, and m_CurrentFbId is again what it was
\* on entry.
C4_Step ==
    op'.name = "renderFrame" /\ FailedCalls(log', "drmModeSetPlane") # {} =>
        /\ Cardinality(NewFbs(log')) = 1
        /\ Cardinality(Calls(log', "drmModeRmFB")) = 1
        /\ \A r \in Calls(log', "drmModeRmFB") :
              /\ log'[r].arg \in NewFbs(log')
              /\ log'[r].ok
              /\ \E c \in FailedCalls(log', "drmModeSetPlane") : c < r
        /\ m_CurrentFbId' = m_CurrentFbId
        /\ liveFbs' = liveFbs
        /\ planeFb' = planeFb
C4_CommitFailureRollsBack == [][C4_Step]_vars

C4_Witness ==
    /\ op.name = "renderFrame"
    /\ FailedCalls(log, "drmModeSetPlane") # {}
    /\ Calls(log, "drmModeRmFB") # {}
    /\ m_CurrentFbId # 0

\* C5: when mapDrmPrimeFrame fails, or drmPrimeFDToHandle fails for a plane,
\* renderFrame creates no framebuffer, writes no plane property, commits
\* nothing and destroys no framebuffer, and leaves m_CurrentFbId,
\* m_LastFullRange and m_LastColorSpace as they were.
C5_Step ==
    /\ op'.name = "renderFrame"
    /\ FailedCalls(log', "mapDrmPrimeFrame") \cup FailedCalls(log', "drmPrimeFDToHandle") # {}
    =>  /\ Calls(log', "drmModeAddFB2WithModifiers") = {}
        /\ Calls(log', "drmModeObjectSetProperty") = {}
        /\ Calls(log', "drmModeSetPlane") = {}
        /\ Calls(log', "drmModeRmFB") = {}
        /\ UNCHANGED << m_CurrentFbId, m_LastFullRange, m_LastColorSpace, liveFbs,
                        planeFb >>
C5_EarlyAbortTouchesNothing == [][C5_Step]_vars

C5_Witness ==
    /\ op.name = "renderFrame"
    /\ \E h \in FailedCalls(log, "drmPrimeFDToHandle") :
          log[h].arg = AV_DRM_MAX_PLANES - 1
    /\ m_CurrentFbId # 0
    /\ m_LastColorSpace # NO_COLORSPACE

\* C6: in renderFrame and testRenderFrame every successful mapDrmPrimeFrame
\* is followed, before the call returns, by exactly one unmapDrmPrimeFrame,
\* and unmapDrmPrimeFrame is called for nothing else: not after a failed
\* map, not twice, and not without a backend renderer.
C6_MapUnmapPaired ==
    op.name \in {"renderFrame", "testRenderFrame"} =>
        /\ mapped = 0
        /\ Cardinality(Calls(log, "unmapDrmPrimeFrame"))
              = Cardinality(OkCalls(log, "mapDrmPrimeFrame"))
        /\ Cardinality(Calls(log, "mapDrmPrimeFrame")) = (IF m_BackendRenderer THEN 1 ELSE 0)
        /\ \A u \in Calls(log, "unmapDrmPrimeFrame") :
              \E m \in OkCalls(log, "mapDrmPrimeFrame") : m < u

C6_Witness ==
    /\ op.name = "renderFrame"
    /\ m_BackendRenderer
    /\ FailedCalls(log, "drmPrimeFDToHandle") # {}
    /\ Cardinality(Calls(log, "unmapDrmPrimeFrame")) = 1

\* C7: when two consecutive renderFrame calls both get past framebuffer
\* creation and the second frame has another colorspace and the same range
\* flag, and COLOR_RANGE exists with an enum entry for the range string, the
\* second call writes COLOR_RANGE (once, with that entry's value).
C7_RangeRewrittenOnColorspaceChange ==
    /\ op.name = "renderFrame"
    /\ hist = "colorspace"
    /\ HasEnum(m_ColorRangeProp, getDrmColorRangeValue(op))
    =>  /\ Cardinality(PropertyWrites(log, "COLOR_RANGE")) = 1
        /\ \A w \in PropertyWrites(log, "COLOR_RANGE") :
              log[w].arg = (IF op.fullRange THEN 1 ELSE 0)

C7_Witness ==
    /\ op.name = "renderFrame"
    /\ hist = "colorspace"
    /\ PropertyWrites(log, "COLOR_RANGE") # {}

\* C8: on a device whose COLOR_RANGE and COLOR_ENCODING have the expected enum
\* strings, the first frame to get past framebuffer creation, of a known
\* colorspace C and range R, writes each property exactly once and leaves the
\* cached state (C, R); a frame whose (C, R) is that of the last frame that got
\* past framebuffer creation writes no colour property (on any device).
C8_ColorWrittenOnceThenCached ==
    op.name = "renderFrame" =>
        /\ ( /\ hist = "first"
             /\ op.colorspace \in KnownColorSpaces
             /\ HasEnum(m_ColorRangeProp, getDrmColorRangeValue(op))
             /\ HasEnum(m_ColorEncodingProp, getDrmColorEncodingValue(op))
             =>  /\ Cardinality(PropertyWrites(log, "COLOR_RANGE")) = 1
                 /\ Cardinality(PropertyWrites(log, "COLOR_ENCODING")) = 1
                 /\ \A w \in PropertyWrites(log, "COLOR_ENCODING") :
                       log[w].arg = op.colorspace
                 /\ m_LastColorSpace = op.colorspace
                 /\ m_LastFullRange = op.fullRange )
        /\ ( hist = "same" =>
                 /\ ColorWrites(log) = {}
                 /\ m_LastColorSpace = op.colorspace
                 /\ m_LastFullRange = op.fullRange )

C8_Witness ==
    /\ op.name = "renderFrame"
    /\ hist = "first"
    /\ op.colorspace = COLORSPACE_REC_709
    /\ ~op.fullRange
    /\ Cardinality(PropertyWrites(log, "COLOR_RANGE")) = 1
    /\ Cardinality(PropertyWrites(log, "COLOR_ENCODING")) = 1
    /\ m_LastColorSpace = COLORSPACE_REC_709
    /\ ~m_LastFullRange

\* C9: with HDR_OUTPUT_METADATA present, setHdrMode destroys the blob it
\* holds on entry (if any) first, before any drmModeCreatePropertyBlob and
\* before the connector property write; it writes the property exactly once,
\* last; and setHdrMode(false) writes the value 0 and creates no blob,
\* whether or not a blob was held.
C9_Step ==
    op'.name = "setHdrMode" /\ m_HdrOutputMetadataProp # NullProp =>
        /\ m_HdrOutputMetadataBlobId # 0 =>
              /\ log'[1].call = "drmModeDestroyPropertyBlob"
              /\ log'[1].arg = m_HdrOutputMetadataBlobId
        /\ \A d \in Calls(log', "drmModeDestroyPropertyBlob") :
              /\ log'[d].arg = m_HdrOutputMetadataBlobId
              /\ \A c \in Calls(log', "drmModeCreatePropertyBlob")
                          \cup Calls(log', "drmModeObjectSetProperty") : d < c
        /\ PropertyWrites(log', "HDR_OUTPUT_METADATA") = {Len(log')}
        /\ ~op'.enabled =>
              /\ log'[Len(log')].arg = 0
              /\ Calls(log', "drmModeCreatePropertyBlob") = {}
C9_DestroyBeforeCreateAndApply == [][C9_Step]_vars

C9_Witness ==
    /\ op.name = "setHdrMode"
    /\ op.enabled
    /\ \E d \in OkCalls(log, "drmModeDestroyPropertyBlob"),
          c \in OkCalls(log, "drmModeCreatePropertyBlob"),
          w \in PropertyWrites(log, "HDR_OUTPUT_METADATA") :
          d < c /\ c < w /\ log[w].arg = log[c].arg

\* C10: at most one metadata blob the renderer created is live at any point,
\* inside a setHdrMode call as well as after it, and a nonzero
\* m_HdrOutputMetadataBlobId is the id of that blob.
C10_AtMostOneBlob ==
    /\ Cardinality(liveBlobs) <= 1
    /\ peakBlobs <= 1
    /\ liveBlobs = (IF m_HdrOutputMetadataBlobId = 0 THEN {}
                    ELSE {m_HdrOutputMetadataBlobId})

C10_Witness ==
    /\ op.name = "setHdrMode"
    /\ op.enabled
    /\ OkCalls(log, "drmModeDestroyPropertyBlob") # {}
    /\ OkCalls(log, "drmModeCreatePropertyBlob") # {}
    /\ liveBlobs = {m_HdrOutputMetadataBlobId}

\* the calls of a log that release something the renderer created on the device
Releases(l) ==
    Calls(l, "drmModeRmFB") \cup Calls(l, "drmModeDestroyPropertyBlob")

\* C11: the destructor starts with setHdrMode(false), before any other
\* release, and every drmModeRmFB, drmModeDestroyPropertyBlob and
\* drmModeFreeProperty it makes comes before the close of the device.
C11_HdrOffFirstCloseLast ==
    op.name = "~DrmRenderer" =>
        /\ Len(log) >= 1
        /\ log[1].call = "setHdrMode"
        /\ log[1].arg = 0
        /\ Calls(log, "setHdrMode") = {1}
        /\ \A c \in Calls(log, "close") :
              \A r \in Releases(log) \cup Calls(log, "drmModeFreeProperty")
                       \cup Calls(log, "drmModeObjectSetProperty") : r < c

C11_Witness ==
    /\ op.name = "~DrmRenderer"
    /\ OkCalls(log, "drmModeRmFB") # {}
    /\ OkCalls(log, "drmModeDestroyPropertyBlob") # {}
    /\ PropertyWrites(log, "HDR_OUTPUT_METADATA") # {}
    /\ Calls(log, "close") # {}

\* C12: once the destructor has run, no framebuffer and no metadata blob
\* the renderer created is live, whatever renderFrame and setHdrMode calls
\* came before and however they failed; and no call, of any entry point,
\* destroys a framebuffer or blob that is not live (a second destroy).
C12_AllReleasedOnce ==
    /\ phase = "destroyed" => liveFbs = {} /\ liveBlobs = {}
    /\ \A r \in Releases(log) : log[r].arg # 0 => log[r].ok

C12_Witness ==
    /\ phase = "destroyed"
    /\ OkCalls(log, "drmModeRmFB") # {}
    /\ OkCalls(log, "drmModeDestroyPropertyBlob") # {}
    /\ liveFbs = {}
    /\ liveBlobs = {}

\* C13: the destructor closes the device descriptor exactly once when it is
\* valid and not owned by the windowing layer, and never when it is borrowed
\* (m_SdlOwnsDrmFd) or was never opened (m_DrmFd = -1).
C13_CloseOnlyWhenOwned ==
    op.name = "~DrmRenderer" =>
        /\ Cardinality(Calls(log, "close"))
              = (IF ~m_SdlOwnsDrmFd /\ m_DrmFd # -1 THEN 1 ELSE 0)
        /\ \A c \in Calls(log, "close") : log[c].arg = m_DrmFd

C13_Witness ==
    /\ op.name = "~DrmRenderer"
    /\ m_DrmFd # -1
    /\ ~m_SdlOwnsDrmFd
    /\ Cardinality(Calls(log, "close")) = 1

\* C14: whatever entry points initializeEGL accepted, exportEGLImages and
\* freeEGLImages never call through a null entry point, and freeEGLImages
\* destroys an exported image through the destroy entry point of the family
\* (core or KHR) whose create entry point made it.
C14_Step ==
    op'.name \in {"exportEGLImages", "freeEGLImages"} =>
        \A d \in 1..Len(log') :
            /\ log'[d].call # "null"
            /\ (op'.name = "freeEGLImages" /\ log'[d].call = "destroy") =>
                  \E img \in liveImages :
                      img.id = log'[d].arg /\ img.family = log'[d].prop
C14_DestroyMatchesCreate == [][C14_Step]_vars

\* the attribute list C15 describes, built from the names of the enumerants
C15_PlaneKey(i, what) == Key("EGL_DMA_BUF_PLANE" \o ToString(i) \o "_" \o what \o "_EXT")
C15_Plane(i, plane, extDmaBuf) ==
    << C15_PlaneKey(i, "FD"), Val(plane.fd),
       C15_PlaneKey(i, "OFFSET"), Val(plane.offset),
       C15_PlaneKey(i, "PITCH"), Val(plane.pitch) >>
    \o (IF extDmaBuf /\ plane.format_modifier # DRM_FORMAT_MOD_INVALID
        THEN << C15_PlaneKey(i, "MODIFIER_LO"), Val(plane.format_modifier.lo),
                C15_PlaneKey(i, "MODIFIER_HI"), Val(plane.format_modifier.hi) >>
        ELSE << >>)
RECURSIVE C15_Planes(_, _, _)
C15_Planes(planes, n, extDmaBuf) ==
    IF n = 0 THEN << >>
    ELSE C15_Planes(planes, n - 1, extDmaBuf) \o C15_Plane(n - 1, planes[n], extDmaBuf)
C15_Expected(frame, extDmaBuf) ==
    << Key("EGL_LINUX_DRM_FOURCC_EXT"), Val(frame.format),
       Key("EGL_WIDTH"), Val(frame.width), Key("EGL_HEIGHT"), Val(frame.height) >>
    \o C15_Planes(frame.planes, Len(frame.planes), extDmaBuf)
    \o (IF frame.colorspace \in KnownColorSpaces
        THEN << Key("EGL_YUV_COLOR_SPACE_HINT_EXT"),
                Key(CASE frame.colorspace = COLORSPACE_REC_601 -> "EGL_ITU_REC601_EXT"
                      [] frame.colorspace = COLORSPACE_REC_709 -> "EGL_ITU_REC709_EXT"
                      [] frame.colorspace = COLORSPACE_REC_2020 -> "EGL_ITU_REC2020_EXT") >>
        ELSE << >>)
    \o << Key("EGL_SAMPLE_RANGE_HINT_EXT"),
          Key(IF frame.fullRange THEN "EGL_YUV_FULL_RANGE_EXT"
              ELSE "EGL_YUV_NARROW_RANGE_EXT"),
          Key("EGL_NONE") >>
C15_Count(l, name) == Cardinality({i \in 1..Len(l) : l[i] = Key(name)})

\* C15: the attribute list exportEGLImages builds for a frame of n planes is
\* format, width, height; per plane its fd, offset and pitch, then the two
\* modifier words exactly when the modifier extension is present and the
\* plane's modifier is not DRM_FORMAT_MOD_INVALID; one colorspace hint for
\* BT.601/709/2020 and none otherwise; one range hint; EGL_NONE last.
C15_AttributeList ==
    op.name = "exportEGLImages" =>
        /\ attribs = C15_Expected(op.frame, m_EGLExtDmaBuf)
        /\ C15_Count(attribs, "EGL_YUV_COLOR_SPACE_HINT_EXT")
              = (IF op.colorspace \in KnownColorSpaces THEN 1 ELSE 0)
        /\ C15_Count(attribs, "EGL_SAMPLE_RANGE_HINT_EXT") = 1
        /\ C15_Count(attribs, "EGL_NONE") = 1
        /\ attribs[Len(attribs)] = Key("EGL_NONE")

C15_Witness ==
    /\ op.name = "exportEGLImages"
    /\ m_EGLExtDmaBuf
    /\ Len(op.frame.planes) = 2
    /\ \A i \in 1..2 : op.frame.planes[i].format_modifier = I915_FORMAT_MOD_X_TILED
    /\ op.colorspace = COLORSPACE_REC_2020
    /\ Len(attribs) = 31
    /\ C15_Count(attribs, "EGL_DMA_BUF_PLANE1_MODIFIER_HI_EXT") = 1
    /\ C15_Count(attribs, "EGL_DMA_BUF_PLANE0_MODIFIER_LO_EXT") = 1

\* C16 (as stated): canExportEGL returns false when the force-direct
\* override is set, true when the force-EGL override is set, and with no
\* override false exactly when m_SupportsDirectRendering and m_Main10Hdr.
C16_AsStated ==
    op.name = "canExportEGL" =>
        /\ op.forceDirect = "1" => ret = FALSE
        /\ op.forceEGL = "1" => ret = TRUE
        /\ (op.forceDirect # "1" /\ op.forceEGL # "1") =>
              ret = ~(m_SupportsDirectRendering /\ m_Main10Hdr)

\* C16 (amended): as stated, but the force-EGL override gives true only when
\* the force-direct override is not set as well: with both set, force-direct
\* wins.  Either override wins over the automatic preference.
C16_OverridePrecedence ==
    op.name = "canExportEGL" =>
        /\ op.forceDirect = "1" => ret = FALSE
        /\ (op.forceEGL = "1" /\ op.forceDirect # "1") => ret = TRUE
        /\ (op.forceDirect # "1" /\ op.forceEGL # "1") =>
              ret = ~(m_SupportsDirectRendering /\ m_Main10Hdr)

C16_Witness ==
    /\ op.name = "canExportEGL"
    /\ op.forceEGL = "1"
    /\ op.forceDirect = "0"
    /\ m_SupportsDirectRendering
    /\ m_Main10Hdr
    /\ ret = TRUE

\* C17: initialize reports success exactly when a display device and a usable
\* plane are available, and then leaves the device descriptor bound.
C17_InitializeBinds ==
    op.name = "initialize" =>
        /\ ret = (op.deviceAvailable /\ op.planeUsable)
        /\ ret => m_DrmFd # -1

\* C18: without a backend renderer isPixelFormatSupported returns true only
\* for the preferred pixel format (AV_PIX_FMT_DRM_PRIME) and false for every
\* other one; with a backend renderer it returns the backend's answer.
C18_OnlyPreferredFormat ==
    op.name = "isPixelFormatSupported" =>
        ret = (IF m_BackendRenderer THEN op.backendAnswer
               ELSE op.pixelFormat = AV_PIX_FMT_DRM_PRIME)

\* C19: renderFrame changes m_LastFullRange only in a call that issued a
\* COLOR_RANGE property write, and m_LastColorSpace only in a call that issued
\* a COLOR_ENCODING property write; with the property absent, no string for
\* the colorspace or no matching enum entry the cached value stays.
C19_Step ==
    op'.name = "renderFrame" =>
        /\ m_LastFullRange' # m_LastFullRange =>
              PropertyWrites(log', "COLOR_RANGE") # {}
        /\ m_LastColorSpace' # m_LastColorSpace =>
              PropertyWrites(log', "COLOR_ENCODING") # {}
C19_CacheFollowsWrites == [][C19_Step]_vars

\* C20: a renderFrame call whose drmModeSetPlane fails returns with the
\* cached colour state (m_LastFullRange, m_LastColorSpace), the plane's
\* framebuffer and m_CurrentFbId as they were before the call.  (The plane's
\* colour properties change only through the writes of a call that also
\* changes the cached state.)
C20_Step ==
    op'.name = "renderFrame" /\ FailedCalls(log', "drmModeSetPlane") # {} =>
        UNCHANGED << m_LastFullRange, m_LastColorSpace, planeFb, m_CurrentFbId >>
C20_CommitFailurePreservesColour == [][C20_Step]_vars

\* C21: renderFrame never calls drmModeRmFB with framebuffer id 0: when
\* m_CurrentFbId is 0 on entry and the commit succeeds, it makes no
\* drmModeRmFB call.
C21_Step ==
    op'.name = "renderFrame" =>
        /\ \A r \in Calls(log', "drmModeRmFB") : log'[r].arg # 0
        /\ (m_CurrentFbId = 0 /\ OkCalls(log', "drmModeSetPlane") # {}) =>
              Calls(log', "drmModeRmFB") = {}
C21_NoRemovalOfNothing == [][C21_Step]_vars

\* C22: with HDR_OUTPUT_METADATA present, a setHdrMode(true) whose blob
\* creation fails still writes the connector property, once and with value 0,
\* and returns with m_HdrOutputMetadataBlobId 0 and no blob live; and a failed
\* property write leaves the blob id what creation made it (the new blob's id,
\* or 0) and the blob live.
C22_HdrFailuresNonFatal ==
    (op.name = "setHdrMode" /\ m_HdrOutputMetadataProp # NullProp) =>
        /\ FailedCalls(log, "drmModeCreatePropertyBlob") # {} =>
              /\ Cardinality(PropertyWrites(log, "HDR_OUTPUT_METADATA")) = 1
              /\ \A w \in PropertyWrites(log, "HDR_OUTPUT_METADATA") :
                    /\ log[w].arg = 0
                    /\ \A c \in Calls(log, "drmModeCreatePropertyBlob") : c < w
              /\ m_HdrOutputMetadataBlobId = 0
              /\ liveBlobs = {}
        /\ (\E w \in PropertyWrites(log, "HDR_OUTPUT_METADATA") : ~log[w].ok) =>
              /\ \A c \in OkCalls(log, "drmModeCreatePropertyBlob") :
                    /\ m_HdrOutputMetadataBlobId = log[c].arg
                    /\ liveBlobs = {log[c].arg}
              /\ OkCalls(log, "drmModeCreatePropertyBlob") = {} =>
                    m_HdrOutputMetadataBlobId = 0

C22_Witness ==
    /\ op.name = "setHdrMode"
    /\ op.enabled
    /\ OkCalls(log, "drmModeDestroyPropertyBlob") # {}
    /\ FailedCalls(log, "drmModeCreatePropertyBlob") # {}
    /\ \E w \in PropertyWrites(log, "HDR_OUTPUT_METADATA") : log[w].arg = 0
    /\ m_HdrOutputMetadataBlobId = 0

\* C23: whenever setHdrMode has returned, the value of the connector's
\* HDR_OUTPUT_METADATA property is 0 or the id of a blob that is live.
C23_ConnectorBlobLive ==
    op.name = "setHdrMode" => connectorHdr \in {0} \cup liveBlobs

\* C24: the destroy entry point is called only on the handle of an image that
\* exists; when image creation fails, exportEGLImages returns -1 with
\* images[0] null and without a destroy call on the null handle.
C24_DestroyOnlyLiveImage ==
    op.name \in {"exportEGLImages", "freeEGLImages"} =>
        /\ \A d \in Calls(log, "destroy") : log[d].arg # 0 /\ log[d].ok
        /\ (op.name = "exportEGLImages" /\ FailedCalls(log, "create") # {}) =>
              ret = -1 /\ images = 0

====
